---- MODULE Spec2Model ----
(***************************************************************************)
(* The student registration pipeline of main.c: a Coordinator (main) that *)
(* creates one POSIX message queue and forks three workers (Frontend,     *)
(* Database, Logger) which all send to and receive from that one queue.   *)
(* Messages carry msg_type (1 = submission, 2 = confirmation); a worker   *)
(* that dequeues a message of the other type sends it back to the queue.  *)
(*                                                                         *)
(* Every mq_send / mq_receive / wait system call is one atomic step; the  *)
(* local statements that follow a call (tests, assignments, printf) are   *)
(* part of the step of the call that precedes them, except where a sleep  *)
(* separates them.  All messages are sent with priority 0, so the queue   *)
(* is FIFO.  The sleeps only delay a worker: they are interleaving points *)
(* and carry no duration.                                                 *)
(***************************************************************************)
EXTENDS Integers, Sequences, FiniteSets, TLC

VARIABLES
    channel,         \* the named queue: "none", "open", "closed", "unlinked"
    maxmsg,          \* queueAttributes.mq_maxmsg of the open queue
    queue,           \* the messages held by the queue, head first
    mainPc,          \* position of main
    reaped,          \* workers whose exit a wait(NULL) of main has collected
    exitStatus,      \* exit status of main, -1 while it runs
    pc,              \* position of each worker
    status,          \* exit status of each worker, -1 while it has not exited
    msg,             \* each worker's local struct studentMessage
    i,               \* Frontend's loop index
    processedCount,  \* Database's counter
    loggedCount,     \* Logger's counter
    started,         \* stdout of Database, line 82: messages it began to process
    assigned,        \* stdout of Database, line 88: messages after id assignment
    confSent,        \* number of confirmations Database's mq_send (line 90) delivered
    logged,          \* stdout of Logger, line 116: the messages it confirmed
    failed,          \* workers that have seen an mq_send / mq_receive return -1
    requeued         \* messages sent back to the queue by a worker that is not
                     \* their consumer, and not yet taken by their consumer

vars == <<channel, maxmsg, queue, mainPc, reaped, exitStatus, pc, status, msg, i,
          processedCount, loggedCount, started, assigned, confSent, logged,
          failed, requeued>>

mainVars == <<channel, maxmsg, mainPc, reaped, exitStatus>>
frontendVars == <<i>>
databaseVars == <<processedCount, started, assigned, confSent>>
loggerVars == <<loggedCount, logged>>

----------------------------------------------------------------------------
(* Program constants *)

studentCount == 3

mq_maxmsg == 10

baseRollNo == 1001

students == <<"Alice", "Bob", "Charlie">>

Workers == {"Frontend", "Database", "Logger"}

\* The content of a local struct studentMessage before anything is stored in
\* it.  No worker reads its msg before mq_receive or its own stores fill it.
NoMsg == [msg_type |-> 0, studentName |-> "", rollNo |-> 0]

----------------------------------------------------------------------------
(* Pure parts of the workers *)

\* An indexing slip: students[0] for every record.
SubmissionFirstOnly(k) == [msg_type |-> 1, studentName |-> students[1], rollNo |-> 0]

\* The list walked from its end: students[studentCount - 1 - k].
SubmissionReversed(k) ==
    [msg_type |-> 1, studentName |-> students[studentCount - k], rollNo |-> 0]

\* Lines 49-51: the submission Frontend builds for students[k] (k from 0).
Submission(k) == [msg_type |-> 1, studentName |-> students[k + 1], rollNo |-> 0]

\* Line 77: Database puts back whatever is not of type 1.
DatabaseForeign(m) == m.msg_type # 1

\* Database's test copied into Logger unchanged.
LoggerForeignCopied(m) == m.msg_type # 1

\* Line 111: Logger puts back whatever is not of type 2.
LoggerForeign(m) == m.msg_type # 2

\* The id computed without the counter: every record gets the base id.
ConfirmationSameId(m, count) ==
    [msg_type |-> 2, studentName |-> m.studentName, rollNo |-> baseRollNo]

\* The id is assigned but the retagging of line 85 is forgotten.
ConfirmationNotRetagged(m, count) ==
    [msg_type |-> m.msg_type, studentName |-> m.studentName, rollNo |-> baseRollNo + count]

\* Lines 85-86: the confirmation Database makes of an accepted message.
Confirmation(m, count) ==
    [msg_type |-> 2, studentName |-> m.studentName, rollNo |-> baseRollNo + count]

\* A blocking mq_send returns once the queue has room.
HasRoom == Len(queue) < maxmsg

\* A blocking mq_receive returns once the queue holds a message.
HasMessage == Len(queue) > 0

----------------------------------------------------------------------------
(* Initial states *)

InitWith(cap) ==
    /\ channel = "none"
    /\ maxmsg = cap
    /\ queue = <<>>
    /\ mainPc = "open"
    /\ reaped = {}
    /\ exitStatus = -1
    /\ pc = [w \in Workers |-> "unborn"]
    /\ status = [w \in Workers |-> -1]
    /\ msg = [w \in Workers |-> NoMsg]
    /\ i = 0
    /\ processedCount = 0
    /\ loggedCount = 0
    /\ started = <<>>
    /\ assigned = <<>>
    /\ confSent = 0
    /\ logged = <<>>
    /\ failed = {}
    /\ requeued = {}

Init == InitWith(mq_maxmsg)

----------------------------------------------------------------------------
(* Coordinator: main *)

\* Lines 131-143: unlink a stale queue and create a fresh, empty one.
MainOpen ==
    /\ mainPc = "open"
    /\ channel' = "open"
    /\ queue' = <<>>
    /\ mainPc' = "forkFrontend"
    /\ UNCHANGED <<maxmsg, reaped, exitStatus, pc, status, msg, frontendVars,
                   databaseVars, loggerVars, failed, requeued>>

Fork(at, w, next) ==
    /\ mainPc = at
    /\ mainPc' = next
    /\ pc' = [pc EXCEPT ![w] = "loop"]
    /\ UNCHANGED <<channel, maxmsg, queue, reaped, exitStatus, status, msg,
                   frontendVars, databaseVars, loggerVars, failed, requeued>>

\* Lines 145-152.
MainForkFrontend == Fork("forkFrontend", "Frontend", "forkDatabase")

\* Lines 154-161.
MainForkDatabase == Fork("forkDatabase", "Database", "forkLogger")

\* Lines 163-170.
MainForkLogger == Fork("forkLogger", "Logger", "wait1")

\* A single wait(NULL) instead of three: main goes on after the first child.
AfterWaitOnce(at) == "close"

AfterWait(at) ==
    CASE at = "wait1" -> "wait2"
      [] at = "wait2" -> "wait3"
      [] at = "wait3" -> "close"

\* A wait that returns without a child having exited (a non-blocking wait).
MainWaitNoHang ==
    /\ mainPc \in {"wait1", "wait2", "wait3"}
    /\ \E w \in Workers \ reaped : reaped' = reaped \cup {w}
    /\ mainPc' = AfterWait(mainPc)
    /\ UNCHANGED <<channel, maxmsg, queue, exitStatus, pc, status, msg,
                   frontendVars, databaseVars, loggerVars, failed, requeued>>

\* Lines 172-174: each wait(NULL) returns when some child that has not been
\* collected yet has exited; its status is discarded (NULL).
MainWait ==
    /\ mainPc \in {"wait1", "wait2", "wait3"}
    /\ \E w \in Workers \ reaped :
          /\ pc[w] = "exited"
          /\ reaped' = reaped \cup {w}
    /\ mainPc' = AfterWait(mainPc)
    /\ UNCHANGED <<channel, maxmsg, queue, exitStatus, pc, status, msg,
                   frontendVars, databaseVars, loggerVars, failed, requeued>>

\* Lines 176-179.
MainClose ==
    /\ mainPc = "close"
    /\ channel' = "closed"
    /\ mainPc' = "unlink"
    /\ UNCHANGED <<maxmsg, queue, reaped, exitStatus, pc, status, msg,
                   frontendVars, databaseVars, loggerVars, failed, requeued>>

\* The value main returns at line 186.
MainReturnValue == 0

\* Lines 181-186.
MainUnlink ==
    /\ mainPc = "unlink"
    /\ channel' = "unlinked"
    /\ mainPc' = "returned"
    /\ exitStatus' = MainReturnValue
    /\ UNCHANGED <<maxmsg, queue, reaped, pc, status, msg,
                   frontendVars, databaseVars, loggerVars, failed, requeued>>

----------------------------------------------------------------------------
(* Helpers for worker steps *)

Exit(w, code) ==
    /\ pc' = [pc EXCEPT ![w] = "exited"]
    /\ status' = [status EXCEPT ![w] = code]

\* A send that overtakes what is queued (as a higher message priority would).
EnqueueAtHead(m) == queue' = <<m>> \o queue

\* A send that is repeated after it has succeeded.
EnqueueTwice(m) == queue' = Append(Append(queue, m), m)

\* mq_send with priority 0: the message goes to the tail of the queue.
Enqueue(m) == queue' = Append(queue, m)

----------------------------------------------------------------------------
(* Frontend: runFrontendProcess *)

\* Lines 48-54: loop test true, build the submission, sleep.
FrontendBuild ==
    /\ pc["Frontend"] = "loop"
    /\ i < studentCount
    /\ msg' = [msg EXCEPT !["Frontend"] = Submission(i)]
    /\ pc' = [pc EXCEPT !["Frontend"] = "send"]
    /\ UNCHANGED <<mainVars, queue, status, frontendVars, databaseVars,
                   loggerVars, failed, requeued>>

\* Lines 56-60: mq_send succeeds, i++.
FrontendSend ==
    /\ pc["Frontend"] = "send"
    /\ HasRoom
    /\ Enqueue(msg["Frontend"])
    /\ i' = i + 1
    /\ pc' = [pc EXCEPT !["Frontend"] = "loop"]
    /\ UNCHANGED <<mainVars, status, msg, databaseVars, loggerVars, failed,
                   requeued>>

\* Lines 56-59: mq_send returns -1: perror, exit(1).
FrontendSendFail ==
    /\ pc["Frontend"] = "send"
    /\ failed' = failed \cup {"Frontend"}
    /\ Exit("Frontend", 1)
    /\ UNCHANGED <<mainVars, queue, msg, frontendVars, databaseVars, loggerVars,
                   requeued>>

\* Lines 62-63: loop test false, exit(0).
FrontendExit ==
    /\ pc["Frontend"] = "loop"
    /\ i >= studentCount
    /\ Exit("Frontend", 0)
    /\ UNCHANGED <<mainVars, queue, msg, frontendVars, databaseVars, loggerVars,
                   failed, requeued>>

----------------------------------------------------------------------------
(* Database: runDatabaseProcess *)

\* Lines 70-82: loop test true, mq_receive takes the head; a foreign message
\* goes to the requeue at line 78, any other is announced and processed.
DatabaseReceive ==
    /\ pc["Database"] = "loop"
    /\ processedCount < studentCount
    /\ HasMessage
    /\ queue' = Tail(queue)
    /\ msg' = [msg EXCEPT !["Database"] = Head(queue)]
    /\ IF DatabaseForeign(Head(queue))
          THEN /\ pc' = [pc EXCEPT !["Database"] = "requeue"]
               /\ UNCHANGED <<started, requeued>>
          ELSE /\ pc' = [pc EXCEPT !["Database"] = "process"]
               /\ started' = Append(started, Head(queue))
               /\ requeued' = requeued \ {Head(queue)}
    /\ UNCHANGED <<mainVars, status, frontendVars, processedCount, assigned,
                   confSent, loggerVars, failed>>

\* Lines 71-74: mq_receive returns -1: perror, exit(1).
DatabaseReceiveFail ==
    /\ pc["Database"] = "loop"
    /\ processedCount < studentCount
    /\ failed' = failed \cup {"Database"}
    /\ Exit("Database", 1)
    /\ UNCHANGED <<mainVars, queue, msg, frontendVars, databaseVars, loggerVars,
                   requeued>>

\* Lines 78-79: the foreign message is sent back, continue.
DatabaseRequeue ==
    /\ pc["Database"] = "requeue"
    /\ HasRoom
    /\ Enqueue(msg["Database"])
    /\ requeued' = requeued \cup {msg["Database"]}
    /\ pc' = [pc EXCEPT !["Database"] = "loop"]
    /\ UNCHANGED <<mainVars, status, msg, frontendVars, databaseVars,
                   loggerVars, failed>>

\* Lines 78-79: that mq_send returns -1; its result is not looked at, continue.
DatabaseRequeueFail ==
    /\ pc["Database"] = "requeue"
    /\ failed' = failed \cup {"Database"}
    /\ pc' = [pc EXCEPT !["Database"] = "loop"]
    /\ UNCHANGED <<mainVars, queue, status, msg, frontendVars, databaseVars,
                   loggerVars, requeued>>

\* Lines 83-88: after the sleep, retag, assign the id, announce it.
DatabaseProcess ==
    /\ pc["Database"] = "process"
    /\ msg' = [msg EXCEPT !["Database"] = Confirmation(msg["Database"], processedCount)]
    /\ assigned' = Append(assigned, Confirmation(msg["Database"], processedCount))
    /\ pc' = [pc EXCEPT !["Database"] = "send"]
    /\ UNCHANGED <<mainVars, queue, status, frontendVars, processedCount, started,
                   confSent, loggerVars, failed, requeued>>

\* Lines 90-95: mq_send of the confirmation succeeds, processedCount++.
DatabaseSend ==
    /\ pc["Database"] = "send"
    /\ HasRoom
    /\ Enqueue(msg["Database"])
    /\ confSent' = confSent + 1
    /\ processedCount' = processedCount + 1
    /\ pc' = [pc EXCEPT !["Database"] = "loop"]
    /\ UNCHANGED <<mainVars, status, msg, frontendVars, started, assigned,
                   loggerVars, failed, requeued>>

\* Lines 90-93: mq_send returns -1: perror, exit(1).
DatabaseSendFail ==
    /\ pc["Database"] = "send"
    /\ failed' = failed \cup {"Database"}
    /\ Exit("Database", 1)
    /\ UNCHANGED <<mainVars, queue, msg, frontendVars, databaseVars, loggerVars,
                   requeued>>

\* Lines 70, 97: loop test false, exit(0).
DatabaseExit ==
    /\ pc["Database"] = "loop"
    /\ processedCount >= studentCount
    /\ Exit("Database", 0)
    /\ UNCHANGED <<mainVars, queue, msg, frontendVars, databaseVars, loggerVars,
                   failed, requeued>>

----------------------------------------------------------------------------
(* Logger: runLoggerProcess *)

\* Lines 104-117: loop test true, mq_receive takes the head; a foreign message
\* goes to the requeue at line 112, any other is printed and counted.
LoggerReceive ==
    /\ pc["Logger"] = "loop"
    /\ loggedCount < studentCount
    /\ HasMessage
    /\ queue' = Tail(queue)
    /\ msg' = [msg EXCEPT !["Logger"] = Head(queue)]
    /\ IF LoggerForeign(Head(queue))
          THEN /\ pc' = [pc EXCEPT !["Logger"] = "requeue"]
               /\ UNCHANGED <<logged, loggedCount, requeued>>
          ELSE /\ pc' = pc
               /\ logged' = Append(logged, Head(queue))
               /\ loggedCount' = loggedCount + 1
               /\ requeued' = requeued \ {Head(queue)}
    /\ UNCHANGED <<mainVars, status, frontendVars, databaseVars, failed>>

\* Lines 105-108: mq_receive returns -1: perror, exit(1).
LoggerReceiveFail ==
    /\ pc["Logger"] = "loop"
    /\ loggedCount < studentCount
    /\ failed' = failed \cup {"Logger"}
    /\ Exit("Logger", 1)
    /\ UNCHANGED <<mainVars, queue, msg, frontendVars, databaseVars, loggerVars,
                   requeued>>

\* Lines 112-113: the foreign message is sent back, continue.
LoggerRequeue ==
    /\ pc["Logger"] = "requeue"
    /\ HasRoom
    /\ Enqueue(msg["Logger"])
    /\ requeued' = requeued \cup {msg["Logger"]}
    /\ pc' = [pc EXCEPT !["Logger"] = "loop"]
    /\ UNCHANGED <<mainVars, status, msg, frontendVars, databaseVars,
                   loggerVars, failed>>

\* Lines 112-113: that mq_send returns -1; its result is not looked at, continue.
LoggerRequeueFail ==
    /\ pc["Logger"] = "requeue"
    /\ failed' = failed \cup {"Logger"}
    /\ pc' = [pc EXCEPT !["Logger"] = "loop"]
    /\ UNCHANGED <<mainVars, queue, status, msg, frontendVars, databaseVars,
                   loggerVars, requeued>>

\* Lines 104, 119: loop test false, exit(0).
LoggerExit ==
    /\ pc["Logger"] = "loop"
    /\ loggedCount >= studentCount
    /\ Exit("Logger", 0)
    /\ UNCHANGED <<mainVars, queue, msg, frontendVars, databaseVars, loggerVars,
                   failed, requeued>>

----------------------------------------------------------------------------
(* Specifications *)

\* The steps of main.
MainStep ==
    \/ MainOpen
    \/ MainForkFrontend
    \/ MainForkDatabase
    \/ MainForkLogger
    \/ MainWait
    \/ MainClose
    \/ MainUnlink

\* The steps of Frontend in which every queue call succeeds.
FrontendStep ==
    \/ FrontendBuild
    \/ FrontendSend
    \/ FrontendExit

\* The steps of Database in which every queue call succeeds.
DatabaseStep ==
    \/ DatabaseReceive
    \/ DatabaseRequeue
    \/ DatabaseProcess
    \/ DatabaseSend
    \/ DatabaseExit

\* The steps of Logger in which every queue call succeeds.
LoggerStep ==
    \/ LoggerReceive
    \/ LoggerRequeue
    \/ LoggerExit

Next == MainStep \/ FrontendStep \/ DatabaseStep \/ LoggerStep

\* The run of main.c as written, with every queue call succeeding.
Spec == Init /\ [][Next]_vars

\* The transport failures a worker can see: any mq_send or mq_receive of a
\* worker may return -1 instead of completing.
TransportFailure ==
    \/ FrontendSendFail
    \/ DatabaseReceiveFail
    \/ DatabaseRequeueFail
    \/ DatabaseSendFail
    \/ LoggerReceiveFail
    \/ LoggerRequeueFail

NextFault == Next \/ TransportFailure

\* The run of main.c where queue calls of the workers may fail.
SpecFault == Init /\ [][NextFault]_vars

NextIntakeFail == Next \/ FrontendSendFail

\* The run of main.c where only Frontend's mq_send may fail.
SpecIntakeFail == Init /\ [][NextIntakeFail]_vars

\* The run of main.c with mq_maxmsg set to 1 instead of 10.
SpecCap1 == InitWith(1) /\ [][Next]_vars

\* The run of main.c with mq_maxmsg set to any capacity from studentCount up
\* to the 10 of line 132.
InitSized == \E c \in studentCount..mq_maxmsg : InitWith(c)

SpecSized == InitSized /\ [][Next]_vars

\* Scheduling: a process whose next step is possible again and again
\* eventually takes it (a runnable process runs; a blocked mq_receive or
\* mq_send is served once the queue allows it, and is not passed over for
\* ever).  Each process is sequential, so only its next step is ever
\* enabled, and strong fairness of its steps together is strong fairness of
\* each of them; strong fairness implies weak fairness.
Fairness ==
    /\ SF_vars(MainStep)
    /\ SF_vars(FrontendStep)
    /\ SF_vars(DatabaseStep)
    /\ SF_vars(LoggerStep)

\* Spec under fair scheduling, no transport failures.
FairSpec == Spec /\ Fairness

\* SpecIntakeFail under fair scheduling; a failure is never forced.
FairSpecIntakeFail == SpecIntakeFail /\ Fairness

----------------------------------------------------------------------------
(* Vocabulary of the properties *)

Exited(w) == pc[w] = "exited"

AllExitedOK == \A w \in Workers : Exited(w) /\ status[w] = 0

WaitsReturned == mainPc \in {"close", "unlink", "returned"}

Names(seq) == {seq[k].studentName : k \in 1..Len(seq)}

StudentNames == {students[k] : k \in 1..studentCount}

BlockedOnSend(w) == pc[w] \in {"send", "requeue"} /\ ~HasRoom

BlockedOnReceive(w) == pc[w] = "loop" /\ ~HasMessage

----------------------------------------------------------------------------
(* C1 - Conservation: whenever all three workers have exited with status 0,
   Frontend has sent exactly studentCount submissions, Database has sent
   exactly studentCount confirmations, and Logger has logged exactly
   studentCount records, one for each student name: none twice, none dropped. *)
C1_Conservation ==
    AllExitedOK =>
        /\ i = studentCount
        /\ Len(started) = studentCount
        /\ confSent = studentCount
        /\ Len(logged) = studentCount
        /\ Names(logged) = StudentNames
        /\ Names(started) = StudentNames

C1_Witness == AllExitedOK /\ Len(logged) = studentCount /\ requeued = {} /\ mainPc = "returned"

(* C3 - Identifier uniqueness and monotonicity: the k-th submission Database
   accepts is assigned rollNo 1001 + (k-1); the ids are pairwise distinct and
   strictly increasing in assignment order, 1001, 1002, 1003 once all three
   are assigned. *)
C3_Identifiers ==
    /\ Len(assigned) <= studentCount
    /\ Len(assigned) <= Len(started)
    /\ \A k \in 1..Len(assigned) :
          /\ assigned[k].rollNo = 1001 + (k - 1)
          /\ assigned[k].studentName = started[k].studentName
    /\ \A j, k \in 1..Len(assigned) :
          j < k => assigned[j].rollNo < assigned[k].rollNo
    /\ (Exited("Database") /\ status["Database"] = 0) =>
          [k \in 1..Len(assigned) |-> assigned[k].rollNo] = <<1001, 1002, 1003>>

C3_Witness ==
    /\ Len(assigned) = studentCount
    /\ assigned[studentCount].rollNo = 1003
    /\ Exited("Database")

(* C4 - Tag integrity: every message Database accepts (processes instead of
   requeuing) has msg_type 1, and every message Logger accepts (logs instead
   of requeuing) has msg_type 2. *)
C4_TagIntegrity ==
    /\ \A k \in 1..Len(started) : started[k].msg_type = 1
    /\ \A k \in 1..Len(logged) : logged[k].msg_type = 2
    /\ pc["Database"] \in {"process"} => msg["Database"].msg_type = 1
    /\ pc["Database"] = "requeue" => msg["Database"].msg_type # 1
    /\ pc["Logger"] = "requeue" => msg["Logger"].msg_type # 2

C4_Witness ==
    /\ Len(started) = studentCount
    /\ Len(logged) = studentCount
    /\ failed = {}

(* C2 - Termination: with studentCount = 3 and mq_maxmsg = 10, no transport
   failures and fair scheduling, all three workers eventually exit and the
   three waits of main return. *)
C2_Termination == <>((\A w \in Workers : Exited(w)) /\ WaitsReturned)

\* Every message a submission or a confirmation can be.
AllMessages ==
    {Submission(k) : k \in 0..(studentCount - 1)}
        \cup {Confirmation(Submission(k), c) :
                 k \in 0..(studentCount - 1), c \in 0..(studentCount - 1)}

(* C5 - Requeue correctness: every message that a stage dequeued with a
   foreign tag and sent back is eventually dequeued and accepted by its
   consumer (a submission by Database, a confirmation by Logger), under
   strong fairness of the workers' steps. *)
C5_RequeueDelivered ==
    \A m \in AllMessages : (m \in requeued) ~> (m \notin requeued)

(* C6 - Logging order: Logger logs the confirmations in the order Database
   assigned them, 1001 before 1002 before 1003, each with the name Database
   paired with that id, and exactly three of them once it has exited. *)
C6_LoggingOrder ==
    /\ Len(logged) <= Len(assigned)
    /\ \A k \in 1..Len(logged) :
          k <= Len(assigned) => logged[k] = assigned[k]
    /\ Exited("Logger") => Len(logged) = studentCount

\* A worker that has been forked and has not exited.
Unfinished(w) == pc[w] \notin {"unborn", "exited"}

\* Some worker is unfinished and every unfinished worker waits in an mq_send
\* for room in the full queue.
AllBlockedOnSend ==
    /\ \E w \in Workers : Unfinished(w)
    /\ \A w \in Workers : Unfinished(w) => BlockedOnSend(w)
    /\ \A w \in Workers : pc[w] # "unborn"

(* C7 - Capacity-1 run: with mq_maxmsg = 1 no reachable state has every
   unfinished worker blocked on a send to the full queue (so the run can
   always go on to completion), and conservation, identifiers and tag
   integrity hold. *)
C7_Capacity1 ==
    /\ ~AllBlockedOnSend
    /\ C1_Conservation
    /\ C3_Identifiers
    /\ C4_TagIntegrity

\* Frontend has exited after fewer than studentCount successful sends.
FrontendPartial == Exited("Frontend") /\ i < studentCount

(* C8 - Partial-intake non-termination: once Frontend has terminated after
   sending fewer than studentCount submissions, Database and Logger never
   exit, the third wait of main never returns, and each of the two is
   eventually blocked for ever in mq_receive on the empty queue. *)
C8_PartialIntake ==
    /\ [](FrontendPartial =>
            /\ ~Exited("Database")
            /\ ~Exited("Logger")
            /\ ~WaitsReturned)
    /\ [](FrontendPartial /\ pc["Logger"] # "unborn" =>
            <>[](BlockedOnReceive("Database") /\ BlockedOnReceive("Logger")))

(* C9 - Exit status propagation: when main has returned, its exit status is 0
   only if all studentCount records were logged, and it is non-zero if any
   worker exited with status 1. *)
C9_ExitStatus ==
    mainPc = "returned" =>
        /\ (exitStatus = 0 => Len(logged) = studentCount)
        /\ ((\E w \in Workers : status[w] = 1) => exitStatus # 0)

(* C10 - Transport failure is fatal: a worker that has seen an mq_send or an
   mq_receive fail (the requeue send included) has terminated with status 1;
   it does not go on with its loop. *)
C10_FailureIsFatal ==
    \A w \in failed : Exited(w) /\ status[w] = 1

\* main has gone past its three waits and called mq_close (line 176).
TeardownAttempted == mainPc \in {"unlink", "returned"}

(* C11 - Teardown always attempted: in every run, whatever the outcomes of
   the workers (exit 0 or exit 1 of any of them), main eventually attempts to
   destroy the queue (mq_close, then mq_unlink). *)
C11_TeardownAttempted == <>TeardownAttempted

(* C12 - Channel lifecycle ordering: the queue is created once, by main,
   before any worker starts; it is closed and unlinked by main only after
   all three workers have exited; no worker sends or receives on a destroyed
   queue, and no worker creates or destroys it. *)
C12_Lifecycle ==
    /\ []((\E w \in Workers : pc[w] # "unborn") => channel # "none")
    /\ [](channel \in {"closed", "unlinked"} => \A w \in Workers : Exited(w))
    /\ [][(channel' = "open" /\ channel # "open") =>
              channel = "none" /\ \A w \in Workers : pc[w] = "unborn"]_vars
    /\ [][channel' # channel => mainPc' # mainPc /\ pc' = pc]_vars
    /\ [][(queue' # queue \/ pc' # pc) => channel = "open" /\ channel' = "open"]_vars

C12_Witness ==
    /\ channel = "unlinked"
    /\ \A w \in Workers : Exited(w)
    /\ \E w \in Workers : status[w] = 1

\* The messages a worker holds outside the queue: one it has dequeued and
\* not yet sent back (requeue), or one Database has dequeued and is turning
\* into a confirmation (process, send).
Holds(w) ==
    \/ w \in {"Database", "Logger"} /\ pc[w] = "requeue"
    \/ w = "Database" /\ pc[w] \in {"process", "send"}

WellFormed(m) ==
    /\ m.msg_type \in {1, 2}
    /\ m.msg_type = 1 => m.rollNo = 0
    /\ m.msg_type = 2 => m.rollNo # 0 /\ m.rollNo \in 1001..(1000 + studentCount)

(* C13 - Message well-formedness: every message on the queue, or held by a
   worker between its receive and its requeue, has msg_type 1 or 2; a
   submission has rollNo 0 and a confirmation a non-zero rollNo in
   1001..1000+studentCount. *)
C13_WellFormed ==
    /\ \A k \in 1..Len(queue) : WellFormed(queue[k])
    /\ \A w \in {"Database", "Logger"} : pc[w] = "requeue" => WellFormed(msg[w])
    /\ pc["Database"] = "send" => WellFormed(msg["Database"])
    /\ pc["Frontend"] = "send" => WellFormed(msg["Frontend"])

C13_Witness ==
    /\ Len(queue) >= 1
    /\ pc["Logger"] = "requeue" /\ msg["Logger"].msg_type = 1
    /\ pc["Database"] = "requeue" /\ msg["Database"].msg_type = 2

\* The test a consumer applies to what it has dequeued.
ForeignTo(w, m) == IF w = "Database" THEN DatabaseForeign(m) ELSE LoggerForeign(m)

\* The queue holds messages, all of them foreign to w, and no message for w
\* exists outside the queue either: its sender has produced nothing for it
\* that it could take.
OnlyForeignFor(w) ==
    /\ HasMessage
    /\ \A k \in 1..Len(queue) : ForeignTo(w, queue[k])
    /\ \A v \in {"Database", "Logger"} \ {w} :
          pc[v] = "requeue" => ForeignTo(w, msg[v])

\* A step in which w, in that situation, dequeues once more the foreign
\* message it has itself sent back before, to send it back again, while the
\* consumer of that message is busy and not waiting in mq_receive.
SpinsAgain(w) ==
    /\ OnlyForeignFor(w)
    /\ \A v \in {"Database", "Logger"} \ {w} : pc[v] # "loop"
    /\ Head(queue) \in requeued
    /\ pc[w] = "loop"
    /\ pc'[w] = "requeue"
    /\ msg'[w] = Head(queue)

(* C14 - No unbounded spinning: while the queue contains only messages
   foreign to a stage and nothing has been produced for it, the stage stays
   blocked in mq_receive; it does not dequeue and re-send the same foreign
   message again and again. *)
C14_NoSpinning ==
    [][~SpinsAgain("Database") /\ ~SpinsAgain("Logger")]_vars

\* Logger has taken the submission of name n off the queue for requeue and
\* Database has not accepted it yet.
LoggerDisplaced(n) ==
    \/ \E m \in requeued : m.msg_type = 1 /\ m.studentName = n
    \/ /\ pc["Logger"] = "requeue"
       /\ msg["Logger"].msg_type = 1
       /\ msg["Logger"].studentName = n

(* C15 - Requeue reordering of submissions: ids follow the order in which
   Database receives the submissions: the k-th id goes to the k-th message
   it accepted.  That order can differ from Frontend's send order, and it
   does so only through Logger: whenever Database has accepted a submission
   sent later before one sent earlier, Logger has dequeued the earlier one
   for requeue.  The run in which a name other than Alice gets 1001 is
   reachable (C15_Witness). *)
C15_ReceiveOrder ==
    /\ \A k \in 1..Len(assigned) : assigned[k] = Confirmation(started[k], k - 1)
    /\ \A k \in 1..Len(started) : \A e \in 1..studentCount :
          (/\ \E l \in 1..studentCount : e < l /\ students[l] = started[k].studentName
           /\ students[e] \notin Names(started))
             => LoggerDisplaced(students[e])

C15_Witness ==
    /\ Len(assigned) >= 1
    /\ assigned[1].rollNo = 1001
    /\ assigned[1].studentName # students[1]
    /\ \E m \in requeued : m.studentName = students[1]

\* How many copies of m are in the system: on the queue or held by a worker.
InSystem(m) ==
    Cardinality({k \in 1..Len(queue) : queue[k] = m})
        + Cardinality({w \in {"Database", "Logger"} : Holds(w) /\ msg[w] = m})

\* w's mq_receive has returned a message that w is going to send back.
ReceivesForeign(w) == pc[w] = "loop" /\ pc'[w] = "requeue"

\* w's requeuing mq_send has delivered the message.
Requeues(w) == pc[w] = "requeue" /\ pc'[w] = "loop" /\ queue' # queue

(* C16 - Requeue frame: a stage that dequeues a foreign message and requeues
   it re-sends it with msg_type, studentName and rollNo unchanged; its
   counter does not change; the multiset of messages in the system (queue
   plus held by workers) is the same after the requeue as before the
   receive; only the position changes: the message goes to the tail. *)
C16_RequeueFrame ==
    [][\A w \in {"Database", "Logger"} :
          /\ ReceivesForeign(w) =>
                /\ HasMessage
                /\ msg'[w] = Head(queue)
                /\ queue' = Tail(queue)
                /\ processedCount' = processedCount
                /\ loggedCount' = loggedCount
                /\ \A m \in AllMessages : InSystem(m)' = InSystem(m)
          /\ Requeues(w) =>
                /\ queue' = Append(queue, msg[w])
                /\ msg'[w] = msg[w]
                /\ processedCount' = processedCount
                /\ loggedCount' = loggedCount
                /\ confSent' = confSent
                /\ \A m \in AllMessages : InSystem(m)' = InSystem(m)]_vars

C16_Witness ==
    /\ Len(queue) >= 2
    /\ queue[Len(queue)] \in requeued
    /\ queue[Len(queue)].msg_type = 2
    /\ \E m \in requeued : m.msg_type = 1

\* Messages on the queue plus messages held by workers (dequeued and not
\* yet sent back, or being turned into a confirmation).
InFlight ==
    Len(queue) + Cardinality({w \in {"Database", "Logger"} : Holds(w)})

(* C17 - In-flight bound: the number of messages on the queue plus those
   held by workers never exceeds the number of submissions sent, hence never
   studentCount (each submission is replaced by at most one confirmation);
   so with mq_maxmsg = 10 the queue never reaches capacity and no mq_send
   ever finds it full. *)
C17_InFlightBound ==
    /\ InFlight <= i
    /\ i <= studentCount
    /\ InFlight <= studentCount
    /\ Len(queue) < maxmsg
    /\ \A w \in Workers : ~BlockedOnSend(w)

C17_Witness ==
    /\ InFlight = studentCount
    /\ pc["Database"] = "send"
    /\ pc["Logger"] = "requeue"
    /\ Len(queue) = 1

\* w waits in an mq_send for room, or in the mq_receive of its loop for a
\* message.
Blocked(w) ==
    \/ BlockedOnSend(w)
    \/ w = "Database" /\ processedCount < studentCount /\ BlockedOnReceive(w)
    \/ w = "Logger" /\ loggedCount < studentCount /\ BlockedOnReceive(w)

\* Some worker can take a step.
WorkerCanStep == ENABLED (FrontendStep \/ DatabaseStep \/ LoggerStep)

(* C18 - Deadlock freedom under the sizing rule: for every capacity from
   studentCount to 10 and no transport failures, whenever a worker has been
   started and has not finished, some worker can take a step: never is
   every unfinished worker blocked in mq_receive on the empty queue or in
   mq_send on the full queue. *)
C18_NoDeadlock ==
    (\E w \in Workers : Unfinished(w)) =>
        /\ WorkerCanStep
        /\ \E w \in Workers : Unfinished(w) /\ ~Blocked(w)

C18_Witness ==
    /\ maxmsg = studentCount
    /\ Len(queue) = maxmsg
    /\ Exited("Frontend")
    /\ Unfinished("Database")
    /\ Unfinished("Logger")

(* C19 - Empty channel at teardown: in a run without transport failures,
   once the third wait of main has returned and main closes and unlinks the
   queue, the queue holds no message and no worker holds an undelivered one:
   no submission or confirmation is destroyed with the queue. *)
C19_EmptyAtTeardown ==
    WaitsReturned =>
        /\ queue = <<>>
        /\ InFlight = 0
        /\ \A w \in Workers : Exited(w)
        /\ Names(logged) = StudentNames

C19_Witness == channel = "unlinked" /\ queue = <<>> /\ Len(logged) = studentCount

\* The chain of the counters of the three stages.
CountsOrdered ==
    /\ loggedCount = Len(logged)
    /\ loggedCount <= confSent
    /\ confSent = processedCount
    /\ processedCount <= i
    /\ i <= studentCount

(* C20 - Stage progress ordering, as claimed: in every reachable state
   loggedCount <= confirmations sent = processedCount <= submissions sent
   <= studentCount, and so Database has exited only after Frontend has sent
   all submissions, and Logger only after Database has sent all
   confirmations. *)
C20_ProgressOrderingAnyExit ==
    /\ CountsOrdered
    /\ Exited("Database") => i = studentCount
    /\ Exited("Logger") => confSent = studentCount

(* C20 as amended: the same chain of counters, and the two consequences for
   a worker that has left its loop and exited with status 0. *)
C20_ProgressOrdering ==
    /\ CountsOrdered
    /\ (Exited("Database") /\ status["Database"] = 0) => i = studentCount
    /\ (Exited("Logger") /\ status["Logger"] = 0) => confSent = studentCount

C20_Witness ==
    /\ Exited("Database") /\ status["Database"] = 0
    /\ Exited("Logger") /\ status["Logger"] = 0
    /\ loggedCount = studentCount

====
